---------------------------- MODULE Spec2Model ----------------------------
(***************************************************************************)
(* Model of the rent-or-buy financial simulation engine (src/utils.py) and *)
(* of its callers (src/to_rent_or_to_own.py, src/utils_test.py).           *)
(*                                                                         *)
(* Numbers.  The program computes in Python floats.  The model computes    *)
(* the same expressions in exact rational arithmetic: a number is a record *)
(* [n |-> numerator, d |-> denominator] in lowest terms with d > 0, so     *)
(* that two numbers are equal iff their records are equal.  Rounding of    *)
(* float64 is not modelled.  The twelfth root (1 + rate) ** (1/12) is      *)
(* computed for annual rates whose root is rational (rate 0 -> 1, rate     *)
(* 4095 -> 2).                                                             *)
(***************************************************************************)
EXTENDS Integers, Sequences, FiniteSets, TLC

VARIABLES
    params,     \* the Parameter Set objects: ParamIds -> Parameters record (or NoParams)
    origin,     \* how params[1] was built: "none", "ctor" or "define_inputs"
    sims,       \* the FinancialStatus objects: Slots -> record (or NoSim)
    lastCall,   \* the last constructor or query call and its outcome
    threads,    \* Slots -> the statement of increment_by_month a thread is at
    simulate,   \* the running or finished call of simulate(buy, rent), or NotCalled
    history     \* Slots -> the argument lists of the increment_by_month calls
                \* made with explicit argument lists (AdvanceWith)

vars == <<params, origin, sims, lastCall, threads, simulate, history>>

---------------------------------------------------------------------------
(* Bounds of the model.                                                    *)

\* Advance calls made on one simulator.
MaxMonths == 25

\* An advance is only taken while the running real-estate product is at most this.
MaxRoi == 8192

\* An advance is only taken while |equity_stocks| is at most this.
MaxBalance == 65536

\* Advance calls made on a simulator whose caller passes rates of its own.
MaxOverrideMonths == 25

\* Advance calls made by one thread when two threads interleave.
MaxThreadMonths == 13

\* How many advances one of the two simulators may be ahead of the other.
MaxSkew == 1

---------------------------------------------------------------------------
(* Exact rational arithmetic standing for Python's float arithmetic.       *)

Abs(x) == IF x < 0 THEN -x ELSE x

RECURSIVE GCD(_, _)
GCD(a, b) == IF b = 0 THEN a ELSE GCD(b, a % b)

LCM(a, b) == (a \div GCD(a, b)) * b

\* n/d in lowest terms, d > 0.
Norm(n, d) ==
    LET g == GCD(Abs(n), d)
    IN  IF n = 0 THEN [n |-> 0, d |-> 1] ELSE [n |-> n \div g, d |-> d \div g]

R(i) == [n |-> i, d |-> 1]

Frac(n, d) == Norm(n, d)

Zero == R(0)

One == R(1)

Add(a, b) ==
    LET l == LCM(a.d, b.d)
    IN  Norm(a.n * (l \div a.d) + b.n * (l \div b.d), l)

Neg(a) == [n |-> -a.n, d |-> a.d]

Sub(a, b) == Add(a, Neg(b))

Mul(a, b) ==
    LET g1 == GCD(Abs(a.n), b.d)
        g2 == GCD(Abs(b.n), a.d)
    IN  IF a.n = 0 \/ b.n = 0
        THEN Zero
        ELSE [n |-> (a.n \div g1) * (b.n \div g2), d |-> (a.d \div g2) * (b.d \div g1)]

\* a / b for b # 0 (Python raises ZeroDivisionError for b = 0; callers guard it).
Div(a, b) ==
    IF b.n > 0
    THEN Mul(a, [n |-> b.d, d |-> b.n])
    ELSE Mul(a, [n |-> -b.d, d |-> -b.n])

Less(a, b) == Sub(a, b).n < 0

RECURSIVE Pow(_, _)
Pow(a, k) == IF k = 0 THEN One ELSE Mul(a, Pow(a, k - 1))

\* Whole part of |a|, for the guards on magnitude.
Whole(a) == Abs(a.n) \div a.d

---------------------------------------------------------------------------
(* Constants and types of src/utils.py.                                    *)

MONTHS == 12

\* class Decision(Enum): RENT = 1, BUY = 2.  INVALID stands for any value that is
\* neither (None, a string, an integer).
RENT == "RENT"

BUY == "BUY"

INVALID == "INVALID"

Decisions == {RENT, BUY}

\* Python's None.
None == [none |-> TRUE]

NoParams == [none |-> TRUE]

NoSim == [none |-> TRUE]

\* @dataclass Parameters, called with the tuple a of its positional arguments:
\* every field is stored as given; nothing is derived.
Parameters(a) ==
    [roi_real_estate        |-> a[1],
     roi_stocks             |-> a[2],
     mortgage_interest_rate |-> a[3],
     base_house_misc_costs  |-> a[4],
     downpayment_ratio      |-> a[5],
     base_house_equity      |-> a[6],
     price_to_rent_ratio    |-> a[7],
     base_rent_per_year     |-> a[8],
     num_years              |-> a[9],
     monthly_income         |-> a[10]]

\* Parameters() with every default.
DefaultParameters ==
    Parameters(<<Zero, Zero, Zero, Zero, Zero, Zero, Zero, Zero, 0, Zero>>)

\* relativedelta(years, months): the constructor normalises months into 0..11
\* and carries the rest into years.
RelativeDelta(years, months) ==
    [years |-> years + (months \div MONTHS), months |-> months % MONTHS]

\* relativedelta.__add__
AddDelta(a, b) == RelativeDelta(a.years + b.years, a.months + b.months)

\* (1 + rate) ** (1 / MONTHS): the twelfth root, for the rates whose root is rational.
MonthlyRoots == {R(0), R(1), R(2)}

MonthlyFactor(rate) ==
    CHOOSE g \in MonthlyRoots : Pow(g, MONTHS) = Add(One, rate)

\* Variant: the payment with the sign of the principal (an inflow).
Pmt_Inflow(rate, nper, pv) ==
    LET temp == Pow(Add(One, rate), nper)
        fact == IF rate = Zero THEN R(nper) ELSE Div(Sub(temp, One), rate)
    IN  Div(Mul(pv, temp), fact)

\* numpy_financial.pmt(rate, nper, pv, fv=0, when="end")
Pmt(rate, nper, pv) ==
    LET temp == Pow(Add(One, rate), nper)
        fact == IF rate = Zero THEN R(nper) ELSE Div(Sub(temp, One), rate)
    IN  Neg(Div(Mul(pv, temp), fact))

\* Variant: the construction-time payment ignores the interest.
get_monthly_mortgage_repayment_InterestFree(p) ==
    Div(Mul(p.base_house_equity, Sub(One, p.downpayment_ratio)), R(p.num_years * MONTHS))

\* get_monthly_mortgage_repayment(params)
get_monthly_mortgage_repayment(p) ==
    LET monthly_mortgage_rate == Sub(MonthlyFactor(p.mortgage_interest_rate), One)
    IN  Neg(Pmt(monthly_mortgage_rate,
                p.num_years * MONTHS,
                Mul(p.base_house_equity, Sub(One, p.downpayment_ratio))))

---------------------------------------------------------------------------
(* class FinancialStatus.  A simulator is a record of its attributes;      *)
(* s.params is a reference (an id) to the Parameter Set it was given, and  *)
(* the methods take the referenced record as p.  calls and reevals are     *)
(* history fields: the number of increment_by_month and of                 *)
(* annual_reevaluations calls made on the object.                           *)

\* Variant: the income is left out of the cash flow.
monthly_excess_NoIncome(s) == Neg(s.monthly_expenses)

monthly_excess(s) == Sub(s.monthly_income, s.monthly_expenses)

monthly_misc_costs(s, p) ==
    Div(Mul(p.base_house_misc_costs, s.latest_taxable_house_value), R(MONTHS))

monthly_mortgage(s, p) ==
    LET monthly_mortgage_rate == Sub(MonthlyFactor(p.mortgage_interest_rate), One)
    IN  Neg(Pmt(monthly_mortgage_rate,
                p.num_years * MONTHS,
                Mul(p.base_house_equity, Sub(One, p.downpayment_ratio))))

net_worth(s) ==
    Sub(Add(s.equity_real_estate, s.equity_stocks), s.remaining_mortgage_equity)

\* BUY: base_house_equity * (1.0 - downpayment_ratio)
InitialMortgage(p) == Mul(p.base_house_equity, Sub(One, p.downpayment_ratio))

\* Variant: the renter invests the whole house price, not the downpayment.
InitialRentStocks_WholePrice(p) == p.base_house_equity

\* RENT: base_house_equity * downpayment_ratio
InitialRentStocks(p) == Mul(p.base_house_equity, p.downpayment_ratio)

\* Variant: no else branch, an unknown decision falls through silently.
RaiseInvalidDecision_FallThrough(s) == s

\* else: raise ValueError(f"Invalid decision: ...")
RaiseInvalidDecision(s) == [s EXCEPT !.raised = TRUE]

\* _instantiate_internal_state: the new attributes, or raised = TRUE (ValueError).
InstantiateInternalState(s, p) ==
    IF s.decision = BUY
    THEN LET s1 == [s EXCEPT !.equity_real_estate = p.base_house_equity,
                             !.latest_taxable_house_value = p.base_house_equity,
                             !.remaining_mortgage_equity = InitialMortgage(p),
                             !.equity_stocks = Zero]
         IN  [s1 EXCEPT !.monthly_expenses =
                 Add(get_monthly_mortgage_repayment(p), monthly_misc_costs(s1, p))]
    ELSE IF s.decision = RENT
    THEN [s EXCEPT !.equity_real_estate = Zero,
                   !.remaining_mortgage_equity = Zero,
                   !.equity_stocks = InitialRentStocks(p),
                   !.monthly_expenses = Div(p.base_rent_per_year, R(MONTHS))]
    ELSE RaiseInvalidDecision(s)

\* FinancialStatus.__init__(decision, params): pid is the reference to params.
FinancialStatusInit(decision, pid, p) ==
    LET s0 == [params                      |-> pid,
               decision                    |-> decision,
               monthly_income              |-> p.monthly_income,
               equity_real_estate          |-> Zero,
               equity_stocks               |-> Zero,
               latest_taxable_house_value  |-> Zero,
               remaining_mortgage_equity   |-> Zero,
               monthly_expenses            |-> Zero,
               cumulative_real_estate_roi  |-> One,
               time                        |-> RelativeDelta(0, 0),
               raised                      |-> FALSE,
               calls                       |-> 0,
               reevals                     |-> 0]
    IN  InstantiateInternalState(s0, p)

\* Variant: the re-evaluated rent is left as a yearly amount.
EscalatedRent_PerYear(s, p) == Mul(p.base_rent_per_year, s.cumulative_real_estate_roi)

\* RENT: (base_rent_per_year * _cumulative_real_estate_roi) / MONTHS
EscalatedRent(s, p) ==
    Div(Mul(p.base_rent_per_year, s.cumulative_real_estate_roi), R(MONTHS))

\* Variant: the expenses are recomputed from the house value of the year before.
annual_reevaluations_StaleHouseValue(s, p) ==
    LET s1 == [s EXCEPT !.reevals = s.reevals + 1]
    IN  IF s1.decision = BUY
        THEN [s1 EXCEPT !.monthly_expenses =
                  Add(monthly_mortgage(s1, p), monthly_misc_costs(s1, p))]
        ELSE IF s1.decision = RENT
        THEN [s1 EXCEPT !.monthly_expenses = EscalatedRent(s1, p)]
        ELSE s1

\* annual_reevaluations
annual_reevaluations(s, p) ==
    LET s1 == [s EXCEPT !.latest_taxable_house_value =
                            Mul(p.base_house_equity, s.cumulative_real_estate_roi),
                        !.reevals = s.reevals + 1]
    IN  IF s1.decision = BUY
        THEN [s1 EXCEPT !.monthly_expenses =
                  Add(monthly_mortgage(s1, p), monthly_misc_costs(s1, p))]
        ELSE IF s1.decision = RENT
        THEN [s1 EXCEPT !.monthly_expenses = EscalatedRent(s1, p)]
        ELSE s1

\* Variant: the boundary is tested on the time before this month was added.
AnnualBoundary_BeforeIncrement(t) == (t.months + MONTHS - 1) % MONTHS = 0

\* if self.time.months % MONTHS == 0
AnnualBoundary(t) == t.months % MONTHS = 0

\* The statements of increment_by_month, in order.  roi_stocks and roi_real_estate
\* are the call's arguments, already defaulted (see DefaultRoi).
\* Variant: the arguments are accepted and ignored.
DefaultRoi_Ignored(arg, default) == default

\* if roi_x is None: roi_x = self.params.roi_x
DefaultRoi(arg, default) == IF arg = None THEN default ELSE arg

StepTime(s) ==
    [s EXCEPT !.time = AddDelta(s.time, RelativeDelta(0, 1)), !.calls = s.calls + 1]

StepGrowStocks(s, roi_stocks) ==
    [s EXCEPT !.equity_stocks = Mul(s.equity_stocks, MonthlyFactor(roi_stocks))]

StepGrowRealEstate(s, roi_real_estate) ==
    [s EXCEPT !.equity_real_estate =
                  Mul(s.equity_real_estate, MonthlyFactor(roi_real_estate))]

\* Variant: the running product takes the annual factor, not its twelfth root.
StepCumulativeRoi_Annual(s, roi_real_estate) ==
    [s EXCEPT !.cumulative_real_estate_roi =
                  Mul(s.cumulative_real_estate_roi, Add(One, roi_real_estate))]

StepCumulativeRoi(s, roi_real_estate) ==
    [s EXCEPT !.cumulative_real_estate_roi =
                  Mul(s.cumulative_real_estate_roi, MonthlyFactor(roi_real_estate))]

StepCashFlow(s) ==
    [s EXCEPT !.equity_stocks = Add(s.equity_stocks, monthly_excess(s))]

\* Variant: the principal is spread over the years, not the months.
StraightLineRepayment_PerYear(s, p) ==
    Div(Mul(p.base_house_equity, Sub(One, p.downpayment_ratio)), R(p.num_years))

\* Variant: true amortisation, the payment less the interest on what is owed.
StraightLineRepayment_Amortised(s, p) ==
    Sub(get_monthly_mortgage_repayment(p),
        Mul(s.remaining_mortgage_equity,
            Sub(MonthlyFactor(p.mortgage_interest_rate), One)))

\* (base_house_equity * (1.0 - downpayment_ratio)) / (num_years * MONTHS)
StraightLineRepayment(s, p) ==
    Div(Mul(p.base_house_equity, Sub(One, p.downpayment_ratio)), R(p.num_years * MONTHS))

\* Variant: the principal is paid down whatever the decision.
StepMortgage_AnyDecision(s, p) ==
    [s EXCEPT !.remaining_mortgage_equity =
        Sub(s.remaining_mortgage_equity, StraightLineRepayment(s, p))]

\* if self.decision == Decision.BUY: remaining_mortgage_equity -= ...
StepMortgage(s, p) ==
    IF s.decision = BUY
    THEN [s EXCEPT !.remaining_mortgage_equity =
              Sub(s.remaining_mortgage_equity, StraightLineRepayment(s, p))]
    ELSE s

StepAnnual(s, p) == IF AnnualBoundary(s.time) THEN annual_reevaluations(s, p) ELSE s

\* Variant: the annual re-evaluation runs before the month's cash flow is added.
increment_by_month_ReevaluateFirst(s, p, roi_stocks_arg, roi_real_estate_arg) ==
    LET roi_stocks      == DefaultRoi(roi_stocks_arg, p.roi_stocks)
        roi_real_estate == DefaultRoi(roi_real_estate_arg, p.roi_real_estate)
        s1 == StepTime(s)
        s2 == StepGrowStocks(s1, roi_stocks)
        s3 == StepGrowRealEstate(s2, roi_real_estate)
        s4 == StepCumulativeRoi(s3, roi_real_estate)
        s5 == StepAnnual(s4, p)
        s6 == StepCashFlow(s5)
    IN  StepMortgage(s6, p)

\* increment_by_month(roi_stocks, roi_real_estate) as a whole.
increment_by_month(s, p, roi_stocks_arg, roi_real_estate_arg) ==
    LET roi_stocks      == DefaultRoi(roi_stocks_arg, p.roi_stocks)
        roi_real_estate == DefaultRoi(roi_real_estate_arg, p.roi_real_estate)
        s1 == StepTime(s)
        s2 == StepGrowStocks(s1, roi_stocks)
        s3 == StepGrowRealEstate(s2, roi_real_estate)
        s4 == StepCumulativeRoi(s3, roi_real_estate)
        s5 == StepCashFlow(s4)
        s6 == StepMortgage(s5, p)
    IN  StepAnnual(s6, p)

---------------------------------------------------------------------------
(* The callers: how Parameter Sets and simulators come to be.              *)

ParamIds == {1, 2}

\* buy, rent: the two simulators of run() and of the tests, built from params[1].
\* buy_alt, rent_alt: what-if simulators built from params[2].
Slots == {"buy", "rent", "buy_alt", "rent_alt"}

DecisionOf(slot) == IF slot \in {"buy", "buy_alt"} THEN BUY ELSE RENT

ParamsOf(slot) == IF slot \in {"buy", "rent"} THEN 1 ELSE 2

\* Input values.  An annual rate of 4095 has the monthly factor 2.
AnnualRates == {R(0), R(4095)}

MiscRates == {Zero, One}

Downpayments == {Zero, Frac(1, 2), One}

HouseValues == {Zero, R(12)}

RentRatios == {One, R(2)}

Years == {1, 2}

Incomes == {Zero, One}

\* utils_test.get_balanced_rent_no_growth_parameters, with the downpayment, the
\* horizon and the income as further inputs.
get_balanced_rent_no_growth_parameters(house_value, downpayment, num_years, income) ==
    LET rent == Div(Mul(house_value, Sub(One, downpayment)), R(num_years))
        price_to_rent == IF Less(Zero, rent) THEN Div(house_value, rent) ELSE Zero
    IN  Parameters(<<Zero, Zero, Zero, Zero, downpayment, house_value, price_to_rent,
                     rent, num_years, income>>)

BalancedParamSets ==
    { get_balanced_rent_no_growth_parameters(hv, dp, ny, inc) :
        hv \in HouseValues, dp \in Downpayments, ny \in Years, inc \in Incomes }

\* Parameters(...) called with positional values, as utils_test.get_default_parameters
\* does: the rent is whatever the caller passes.
\* A one-year horizon keeps the payment's denominator (1 + r)^n - 1 small.
PositionalParamSets ==
    { Parameters(<<rre, rs, rm, misc, Frac(1, 2), R(12), ptr, R(6), 1, inc>>) :
        rre \in AnnualRates, rs \in AnnualRates, rm \in AnnualRates,
        misc \in MiscRates, ptr \in RentRatios, inc \in Incomes }

CtorParamSets == BalancedParamSets \cup PositionalParamSets \cup {DefaultParameters}

\* Variant: the closing rent derivation is missing.
define_inputs_NoRent(ui) ==
    [DefaultParameters EXCEPT
        !.base_house_equity      = ui.house_value,
        !.monthly_income         = ui.monthly_income,
        !.price_to_rent_ratio    = ui.price_to_rent_ratio,
        !.roi_stocks             = ui.roi_stocks,
        !.num_years              = ui.num_years,
        !.roi_real_estate        = ui.roi_real_estate,
        !.mortgage_interest_rate = ui.mortgage_interest_rate,
        !.downpayment_ratio      = ui.downpayment_ratio,
        !.base_house_misc_costs  = ui.base_house_misc_costs]

\* to_rent_or_to_own.define_inputs: Parameters() with its defaults, every field set
\* from its widget (ui holds the widgets' values), and the rent derived last.
define_inputs(ui) ==
    [DefaultParameters EXCEPT
        !.base_house_equity      = ui.house_value,
        !.monthly_income         = ui.monthly_income,
        !.price_to_rent_ratio    = ui.price_to_rent_ratio,
        !.roi_stocks             = ui.roi_stocks,
        !.num_years              = ui.num_years,
        !.roi_real_estate        = ui.roi_real_estate,
        !.mortgage_interest_rate = ui.mortgage_interest_rate,
        !.downpayment_ratio      = ui.downpayment_ratio,
        !.base_house_misc_costs  = ui.base_house_misc_costs,
        !.base_rent_per_year     = Div(ui.house_value, ui.price_to_rent_ratio)]

\* What the widgets can hold: the price-to-rent slider starts at 1, the horizon
\* slider at 1.
UiInputs ==
    [house_value            : {R(12)},
     monthly_income         : Incomes,
     price_to_rent_ratio    : RentRatios,
     roi_stocks             : AnnualRates,
     num_years              : {1},
     roi_real_estate        : AnnualRates,
     mortgage_interest_rate : {Zero},
     downpayment_ratio      : {Frac(1, 2)},
     base_house_misc_costs  : MiscRates]

NoCall == [op |-> "none"]

Idle == [s \in Slots |-> "idle"]

NotCalled == [pc |-> "none"]

NoHistory == [s \in Slots |-> <<>>]

Init ==
    /\ params = [i \in ParamIds |-> NoParams]
    /\ origin = "none"
    /\ sims = [s \in Slots |-> NoSim]
    /\ lastCall = NoCall
    /\ threads = Idle
    /\ simulate = NotCalled
    /\ history = NoHistory

\* A test or caller builds the Parameter Set with Parameters(...).
NewParameters ==
    /\ params[1] = NoParams
    /\ \E p \in CtorParamSets : params' = [params EXCEPT ![1] = p]
    /\ origin' = "ctor"
    /\ UNCHANGED <<sims, lastCall, threads, simulate, history>>

\* run() builds the Parameter Set with define_inputs().
DefineInputs ==
    /\ params[1] = NoParams
    /\ \E ui \in UiInputs : params' = [params EXCEPT ![1] = define_inputs(ui)]
    /\ origin' = "define_inputs"
    /\ UNCHANGED <<sims, lastCall, threads, simulate, history>>

\* slot = FinancialStatus(decision=d, params=params[ParamsOf(slot)]).  When
\* __init__ raises, the assignment does not happen and slot stays unbound.
Construct(slot, d) ==
    LET pid == ParamsOf(slot)
        r   == FinancialStatusInit(d, pid, params[pid])
    IN  /\ params[pid] # NoParams
        /\ params[pid].num_years >= 1
        /\ sims[slot] = NoSim
        /\ sims' = IF r.raised THEN sims ELSE [sims EXCEPT ![slot] = r]
        /\ lastCall' = [op |-> "FinancialStatus", slot |-> slot, decision |-> d,
                        raised |-> r.raised]
        /\ UNCHANGED <<params, origin, threads, simulate, history>>

\* The model follows a simulator while its numbers stay small.
Bounded(s) ==
    /\ s.calls < MaxMonths
    /\ Whole(s.cumulative_real_estate_roi) <= MaxRoi
    /\ Whole(s.equity_stocks) <= MaxBalance

\* The caller advances one simulator alone, or it and its partner in turn.
InStep(slot, partner) ==
    IF sims[partner] = NoSim
    THEN TRUE
    ELSE sims[slot].calls - sims[partner].calls < MaxSkew

\* sims[slot].increment_by_month()
Advance(slot, partner) ==
    /\ sims[slot] # NoSim
    /\ Bounded(sims[slot])
    /\ InStep(slot, partner)
    /\ sims' = [sims EXCEPT ![slot] =
           increment_by_month(sims[slot], params[sims[slot].params], None, None)]
    /\ UNCHANGED <<params, origin, lastCall, threads, simulate, history>>

MainSlots == {"buy", "rent"}

Partner(slot) == IF slot = "buy" THEN "rent" ELSE "buy"

Next ==
    \/ NewParameters
    \/ DefineInputs
    \/ \E slot \in MainSlots : Construct(slot, DecisionOf(slot))
    \/ \E slot \in MainSlots : Construct(slot, INVALID)
    \/ \E slot \in MainSlots : Advance(slot, Partner(slot))

Spec == Init /\ [][Next]_vars

---------------------------------------------------------------------------
(* Lockstep: the loop of simulate() and of the tests, which advances buy   *)
(* and then rent on every pass.                                            *)

\* Both simulators built from the one Parameter Set p, as run() and the tests do.
BuiltPair(p) ==
    [s \in Slots |->
        IF s \in {"buy", "rent"} THEN FinancialStatusInit(DecisionOf(s), 1, p) ELSE NoSim]

\* Variant: the loop body forgets rent.increment_by_month().
LockstepPass_BuyOnly(ss, ps) ==
    [ss EXCEPT !["buy"] = increment_by_month(ss["buy"], ps[ss["buy"].params], None, None)]

\* buy.increment_by_month(); rent.increment_by_month()
LockstepPass(ss, ps) ==
    [ss EXCEPT
        !["buy"]  = increment_by_month(ss["buy"], ps[ss["buy"].params], None, None),
        !["rent"] = increment_by_month(ss["rent"], ps[ss["rent"].params], None, None)]

InitLockstep ==
    /\ \E p \in CtorParamSets :
          /\ p.num_years >= 1
          /\ params = [i \in ParamIds |-> IF i = 1 THEN p ELSE NoParams]
          /\ sims = BuiltPair(p)
    /\ origin = "ctor"
    /\ lastCall = NoCall
    /\ threads = Idle
    /\ simulate = NotCalled
    /\ history = NoHistory

Lockstep ==
    /\ Bounded(sims["buy"])
    /\ Bounded(sims["rent"])
    /\ sims' = LockstepPass(sims, params)
    /\ UNCHANGED <<params, origin, lastCall, threads, simulate, history>>

NextLockstep == Lockstep

SpecLockstep == InitLockstep /\ [][NextLockstep]_vars

---------------------------------------------------------------------------
(* What-if: two simulators of one strategy whose Parameter Sets differ     *)
(* only in monthly_income.                                                 *)

AltOf(slot) == IF slot = "buy" THEN "buy_alt" ELSE "rent_alt"

TwinOf(slot) ==
    CASE slot = "buy" -> "buy_alt" [] slot = "buy_alt" -> "buy"
      [] slot = "rent" -> "rent_alt" [] slot = "rent_alt" -> "rent"

IncomeStep == One

InitIncome ==
    /\ \E p \in CtorParamSets, slot \in MainSlots :
          LET q == [p EXCEPT !.monthly_income = Add(p.monthly_income, IncomeStep)]
          IN  /\ p.num_years >= 1
              /\ params = [i \in ParamIds |-> IF i = 1 THEN p ELSE q]
              /\ sims = [s \in Slots |->
                     IF s = slot THEN FinancialStatusInit(DecisionOf(s), 1, p)
                     ELSE IF s = AltOf(slot) THEN FinancialStatusInit(DecisionOf(s), 2, q)
                     ELSE NoSim]
    /\ origin = "ctor"
    /\ lastCall = NoCall
    /\ threads = Idle
    /\ simulate = NotCalled
    /\ history = NoHistory

NextIncome == \E slot \in Slots : Advance(slot, TwinOf(slot))

SpecIncome == InitIncome /\ [][NextIncome]_vars

---------------------------------------------------------------------------
(* Threads: buy and rent each advanced by a thread of its own, one         *)
(* statement of increment_by_month at a time, with no synchronisation.     *)
(* threads[slot] names the statement the thread executes next; "idle" is   *)
(* between two calls, and the step from "idle" is the call's first         *)
(* statement.                                                              *)

NextStatement(pc) ==
    CASE pc = "idle"        -> "stocks"
      [] pc = "stocks"      -> "real_estate"
      [] pc = "real_estate" -> "cumulative"
      [] pc = "cumulative"  -> "cash_flow"
      [] pc = "cash_flow"   -> "mortgage"
      [] pc = "mortgage"    -> "annual"
      [] pc = "annual"      -> "idle"

\* The statement at pc, executed on self = s with self.params = p.
Statement(pc, s, p) ==
    CASE pc = "idle"        -> StepTime(s)
      [] pc = "stocks"      -> StepGrowStocks(s, DefaultRoi(None, p.roi_stocks))
      [] pc = "real_estate" -> StepGrowRealEstate(s, DefaultRoi(None, p.roi_real_estate))
      [] pc = "cumulative"  -> StepCumulativeRoi(s, DefaultRoi(None, p.roi_real_estate))
      [] pc = "cash_flow"   -> StepCashFlow(s)
      [] pc = "mortgage"    -> StepMortgage(s, p)
      [] pc = "annual"      -> StepAnnual(s, p)

\* Variant: the balances are class attributes, shared by every instance.
SetAttributes_ClassLevel(ss, slot, new) ==
    [x \in DOMAIN ss |->
        IF ss[x] = NoSim THEN ss[x] ELSE [new EXCEPT !.decision = ss[x].decision]]

\* self.<attribute> = ...: the attributes are the instance's own.
SetAttributes(ss, slot, new) == [ss EXCEPT ![slot] = new]

ThreadParamSets ==
    { p \in PositionalParamSets :
        /\ p.mortgage_interest_rate # Zero
        /\ p.base_house_misc_costs # Zero
        /\ p.monthly_income # Zero
        /\ p.price_to_rent_ratio = R(2) }

InitThreads ==
    /\ \E p \in ThreadParamSets :
          /\ params = [i \in ParamIds |-> IF i = 1 THEN p ELSE NoParams]
          /\ sims = BuiltPair(p)
    /\ origin = "ctor"
    /\ lastCall = NoCall
    /\ threads = Idle
    /\ simulate = NotCalled
    /\ history = NoHistory

ThreadStep(slot) ==
    /\ sims[slot] # NoSim
    /\ threads[slot] = "idle" =>
          /\ sims[slot].calls < MaxThreadMonths
          /\ Bounded(sims[slot])
    /\ sims' = SetAttributes(sims, slot,
                   Statement(threads[slot], sims[slot], params[sims[slot].params]))
    /\ threads' = [threads EXCEPT ![slot] = NextStatement(threads[slot])]
    /\ UNCHANGED <<params, origin, lastCall, simulate, history>>

NextThreads == \E slot \in MainSlots : ThreadStep(slot)

SpecThreads == InitThreads /\ [][NextThreads]_vars

---------------------------------------------------------------------------
(* Queries: the display code and the tests read a simulator between two    *)
(* passes of the lockstep loop.                                            *)

Queries == {"net_worth", "monthly_mortgage", "monthly_misc_costs", "monthly_excess"}

\* The value the method q returns on self = s with self.params = p.
Returned(q, s, p) ==
    CASE q = "net_worth"          -> net_worth(s)
      [] q = "monthly_mortgage"   -> monthly_mortgage(s, p)
      [] q = "monthly_misc_costs" -> monthly_misc_costs(s, p)
      [] q = "monthly_excess"     -> monthly_excess(s)

\* Variant: monthly_mortgage() and monthly_misc_costs() store what they compute
\* in monthly_expenses.
Call_Storing(q, s, p) ==
    [self   |-> IF q \in {"monthly_mortgage", "monthly_misc_costs"}
                THEN [s EXCEPT !.monthly_expenses = Returned(q, s, p)]
                ELSE s,
     result |-> Returned(q, s, p)]

\* self.q(): the object after the call and the value returned.  None of the four
\* method bodies assigns to an attribute.
Call(q, s, p) == [self |-> s, result |-> Returned(q, s, p)]

\* sims[slot].q()
Query(slot, q) ==
    LET c == Call(q, sims[slot], params[sims[slot].params])
    IN  /\ sims[slot] # NoSim
        /\ sims' = [sims EXCEPT ![slot] = c.self]
        /\ lastCall' = [op |-> q, slot |-> slot, result |-> c.result]
        /\ UNCHANGED <<params, origin, threads, simulate, history>>

\* utils.get_monthly_mortgage_repayment(params), called on the Parameter Set alone.
RepaymentQuery ==
    /\ lastCall' = [op |-> "get_monthly_mortgage_repayment",
                    result |-> get_monthly_mortgage_repayment(params[1])]
    /\ UNCHANGED <<params, origin, sims, threads, simulate, history>>

NextQueries ==
    \/ Lockstep
    \/ \E slot \in MainSlots, q \in Queries : Query(slot, q)
    \/ RepaymentQuery

SpecQueries == InitLockstep /\ [][NextQueries]_vars

---------------------------------------------------------------------------
(* Overrides: a caller that passes roi_stocks and roi_real_estate of its   *)
(* own to increment_by_month.                                              *)

\* What a caller can pass for either argument: nothing, or an annual rate.
RoiArgs == {None} \cup AnnualRates

\* The months of a year in which the caller passes rates of its own: the call
\* that closes a year with the re-evaluation.
OverrideMonths == {MONTHS - 1}

OverrideParamSets ==
    { p \in PositionalParamSets :
        /\ p.price_to_rent_ratio = R(2)
        /\ p.monthly_income = One }

\* One simulator, of either strategy.
InitOverrides ==
    /\ \E p \in OverrideParamSets, slot \in MainSlots :
          /\ params = [i \in ParamIds |-> IF i = 1 THEN p ELSE NoParams]
          /\ sims = [s \in Slots |->
                 IF s = slot THEN FinancialStatusInit(DecisionOf(s), 1, p) ELSE NoSim]
    /\ origin = "ctor"
    /\ lastCall = NoCall
    /\ threads = Idle
    /\ simulate = NotCalled
    /\ history = NoHistory

\* sims[slot].increment_by_month(roi_stocks, roi_real_estate)
AdvanceWith(slot, roi_stocks, roi_real_estate) ==
    /\ sims[slot] # NoSim
    /\ Bounded(sims[slot])
    /\ sims[slot].calls < MaxOverrideMonths
    /\ (roi_stocks # None \/ roi_real_estate # None) =>
           sims[slot].calls % MONTHS \in OverrideMonths
    /\ sims' = [sims EXCEPT ![slot] =
           increment_by_month(sims[slot], params[sims[slot].params],
                              roi_stocks, roi_real_estate)]
    /\ history' = [history EXCEPT ![slot] = Append(@, <<roi_stocks, roi_real_estate>>)]
    /\ UNCHANGED <<params, origin, lastCall, threads, simulate>>

NextOverrides ==
    \E slot \in MainSlots, roi_stocks \in RoiArgs, roi_real_estate \in RoiArgs :
        AdvanceWith(slot, roi_stocks, roi_real_estate)

SpecOverrides == InitOverrides /\ [][NextOverrides]_vars

---------------------------------------------------------------------------
(* simulate(buy, rent) of to_rent_or_to_own.py, one pass of its loop at a  *)
(* time.  simulate.pc is "loop" while the call runs and "returned" after   *)
(* its return statement.                                                   *)

\* np.array(range(num_years * MONTHS)) / MONTHS
Times(p) == [m \in 1..(p.num_years * MONTHS) |-> Frac(m - 1, MONTHS)]

\* Variant: the loop body advances first and samples afterwards.
SimulateBody_SampleAfter(sm, ss, ps) ==
    LET after == LockstepPass(ss, ps)
    IN  [simulate |-> [sm EXCEPT
             !.equity_after_buying  = Append(@, net_worth(after["buy"])),
             !.equity_after_renting = Append(@, net_worth(after["rent"]))],
         sims |-> after]

\* The loop body: append buy.net_worth(), append rent.net_worth(),
\* buy.increment_by_month(), rent.increment_by_month().
SimulateBody(sm, ss, ps) ==
    [simulate |-> [sm EXCEPT
         !.equity_after_buying  = Append(@, net_worth(ss["buy"])),
         !.equity_after_renting = Append(@, net_worth(ss["rent"]))],
     sims |-> LockstepPass(ss, ps)]

\* The Parameter Sets whose numbers stay small over the whole horizon.
SimulateParamSets ==
    { p \in CtorParamSets :
        /\ p.num_years >= 1
        /\ p.num_years > 1 => (p.roi_stocks = Zero /\ p.roi_real_estate = Zero) }

\* run(): buy and rent are built from the one Parameter Set.
InitSimulate ==
    /\ \E p \in SimulateParamSets :
          /\ params = [i \in ParamIds |-> IF i = 1 THEN p ELSE NoParams]
          /\ sims = BuiltPair(p)
    /\ origin = "ctor"
    /\ lastCall = NoCall
    /\ threads = Idle
    /\ simulate = NotCalled
    /\ history = NoHistory

\* simulate(buy, rent) is entered: times and the two empty lists.
SimulateCall ==
    /\ simulate = NotCalled
    /\ simulate' = [pc |-> "loop",
                    times |-> Times(params[sims["buy"].params]),
                    equity_after_buying |-> <<>>,
                    equity_after_renting |-> <<>>]
    /\ UNCHANGED <<params, origin, sims, lastCall, threads, history>>

\* for m in times: one pass.
SimulateIteration ==
    /\ simulate.pc = "loop"
    /\ Len(simulate.equity_after_buying) < Len(simulate.times)
    /\ LET r == SimulateBody(simulate, sims, params)
       IN  /\ simulate' = r.simulate
           /\ sims' = r.sims
    /\ UNCHANGED <<params, origin, lastCall, threads, history>>

\* return np.array(equity_after_buying), np.array(equity_after_renting), times
SimulateReturn ==
    /\ simulate.pc = "loop"
    /\ Len(simulate.equity_after_buying) = Len(simulate.times)
    /\ simulate' = [simulate EXCEPT !.pc = "returned"]
    /\ UNCHANGED <<params, origin, sims, lastCall, threads, history>>

NextSimulate ==
    \/ SimulateCall
    \/ SimulateIteration
    \/ SimulateReturn

SpecSimulate == InitSimulate /\ [][NextSimulate]_vars

---------------------------------------------------------------------------
(* The claims.                                                             *)

Built(slot) == sims[slot] # NoSim

Horizon(p) == p.num_years * MONTHS

\* The no-growth scenario: no return, no interest, no income.
ZeroRates(p) ==
    /\ p.roi_stocks = Zero
    /\ p.roi_real_estate = Zero
    /\ p.mortgage_interest_rate = Zero
    /\ p.monthly_income = Zero

NoGrowth(p) == ZeroRates(p) /\ p.base_house_misc_costs = Zero

\* C1: right after construction, before any advance, a simulator's net worth is
\* base_house_equity * downpayment_ratio, so Buy and Rent built from the same
\* Parameter Set have the same net worth.
C1_EqualInitialNetWorth ==
    /\ \A slot \in MainSlots :
          (Built(slot) /\ sims[slot].calls = 0) =>
              net_worth(sims[slot]) =
                  Mul(params[1].base_house_equity, params[1].downpayment_ratio)
    /\ (Built("buy") /\ Built("rent") /\ sims["buy"].calls = 0 /\ sims["rent"].calls = 0)
          => net_worth(sims["buy"]) = net_worth(sims["rent"])

C1_Witness ==
    /\ Built("buy") /\ Built("rent")
    /\ sims["buy"].calls = 0 /\ sims["rent"].calls = 0
    /\ params[1].roi_stocks # Zero /\ params[1].mortgage_interest_rate # Zero
    /\ params[1].base_house_misc_costs # Zero
    /\ net_worth(sims["rent"]) = R(6)

\* C2: in the no-growth scenario the Buy simulator's net worth is
\* base_house_equity * downpayment_ratio initially and after each of the first
\* num_years * 12 advances.
C2_BuyConstantNoGrowth ==
    (Built("buy") /\ NoGrowth(params[1]) /\ sims["buy"].calls <= Horizon(params[1]))
        => net_worth(sims["buy"]) =
               Mul(params[1].base_house_equity, params[1].downpayment_ratio)

C2_Witness ==
    /\ Built("buy") /\ NoGrowth(params[1])
    /\ params[1].num_years = 2 /\ sims["buy"].calls = 24
    /\ sims["buy"].remaining_mortgage_equity = Zero
    /\ net_worth(sims["buy"]) = R(6)

\* C3: in the no-growth scenario the Rent simulator's net worth after m advances is
\* its initial net worth less m * base_rent_per_year / 12, for m up to
\* num_years * 12, the annual re-evaluations included.
C3_RentLinearDecay ==
    (Built("rent") /\ ZeroRates(params[1]) /\ sims["rent"].calls <= Horizon(params[1]))
        => net_worth(sims["rent"]) =
               Sub(net_worth(FinancialStatusInit(RENT, 1, params[1])),
                   Mul(R(sims["rent"].calls),
                       Div(params[1].base_rent_per_year, R(MONTHS))))

C3_Witness ==
    /\ Built("rent") /\ ZeroRates(params[1])
    /\ params[1].num_years = 2 /\ sims["rent"].calls = 24 /\ sims["rent"].reevals = 2
    /\ params[1].base_rent_per_year = R(3)
    /\ net_worth(sims["rent"]) = R(0)

\* C5 as stated: every Parameter Set has
\* base_rent_per_year = base_house_equity / price_to_rent_ratio (read here only
\* where the quotient is defined).
C5_RentAlwaysDerived ==
    (params[1] # NoParams /\ params[1].price_to_rent_ratio # Zero) =>
        params[1].base_rent_per_year =
            Div(params[1].base_house_equity, params[1].price_to_rent_ratio)

\* C5 amended: a Parameter Set returned by define_inputs has
\* base_rent_per_year = base_house_equity / price_to_rent_ratio, and no simulator
\* operation changes it afterwards.
C5_RentDerivedByDefineInputs ==
    origin = "define_inputs" =>
        /\ params[1].price_to_rent_ratio # Zero
        /\ params[1].base_rent_per_year =
               Div(params[1].base_house_equity, params[1].price_to_rent_ratio)

C5_Witness ==
    /\ origin = "define_inputs"
    /\ params[1].price_to_rent_ratio = R(2) /\ params[1].base_rent_per_year = R(6)
    /\ Built("buy") /\ Built("rent")
    /\ sims["buy"].calls >= 12 /\ sims["rent"].calls >= 12

\* C7: a Buy simulator's remaining_mortgage_equity after k advances is
\* P - k * P / (num_years * 12), P = base_house_equity * (1 - downpayment_ratio),
\* for k up to num_years * 12, whatever the mortgage rate; it is zero at the horizon.
C7_StraightLineMortgage ==
    (Built("buy") /\ sims["buy"].calls <= Horizon(params[1])) =>
        LET P == Mul(params[1].base_house_equity, Sub(One, params[1].downpayment_ratio))
            k == sims["buy"].calls
        IN  /\ sims["buy"].remaining_mortgage_equity =
                   Sub(P, Mul(R(k), Div(P, R(Horizon(params[1])))))
            /\ k = Horizon(params[1]) => sims["buy"].remaining_mortgage_equity = Zero

C7_Witness ==
    /\ Built("buy")
    /\ params[1].mortgage_interest_rate # Zero
    /\ params[1].base_house_equity = R(12)
    /\ sims["buy"].calls = Horizon(params[1])
    /\ sims["buy"].remaining_mortgage_equity = Zero

\* C8: the k-th advance of a simulator runs the annual re-evaluation iff k is a
\* positive multiple of 12; every other advance leaves monthly_expenses and
\* latest_taxable_house_value as they were.
C8_AnnualEveryTwelfth ==
    [][\A slot \in MainSlots :
          (Built(slot) /\ sims'[slot] # sims[slot]) =>
              LET k == sims'[slot].calls
              IN  /\ k = sims[slot].calls + 1
                  /\ sims'[slot].reevals =
                         IF k % MONTHS = 0
                         THEN sims[slot].reevals + 1
                         ELSE sims[slot].reevals
                  /\ k % MONTHS # 0 =>
                         /\ sims'[slot].monthly_expenses = sims[slot].monthly_expenses
                         /\ sims'[slot].latest_taxable_house_value =
                                sims[slot].latest_taxable_house_value]_vars

C8_Witness ==
    \E slot \in MainSlots :
        /\ Built(slot)
        /\ params[1].num_years = 1
        /\ sims[slot].calls = 25 /\ sims[slot].reevals = 2

\* C9: FinancialStatus(decision, params) with a decision that is neither BUY nor
\* RENT raises and produces no simulator: every simulator that exists has a valid
\* decision, and the slot of a failed construction stays unbound.
C9_InvalidDecisionRaises ==
    /\ \A slot \in Slots :
          Built(slot) => sims[slot].decision \in Decisions /\ ~sims[slot].raised
    /\ (lastCall.op = "FinancialStatus" /\ lastCall.decision \notin Decisions) =>
          lastCall.raised /\ ~Built(lastCall.slot)

C9_Witness ==
    /\ lastCall.op = "FinancialStatus"
    /\ lastCall.decision = INVALID
    /\ lastCall.raised
    /\ lastCall.slot = "rent" /\ ~Built("rent")
    /\ Built("buy") /\ sims["buy"].calls > 0

\* C4 as stated: two simulators of one strategy whose Parameter Sets differ only in
\* monthly_income have equal net worth after every equal number of advances.
C4_IncomeDisplayOnly ==
    \A slot \in MainSlots :
        (Built(slot) /\ Built(AltOf(slot)) /\ sims[slot].calls = sims[AltOf(slot)].calls)
            => net_worth(sims[slot]) = net_worth(sims[AltOf(slot)])

\* 1 + g + ... + g^(k-1)
RECURSIVE GeometricSum(_, _)
GeometricSum(g, k) == IF k = 0 THEN Zero ELSE Add(One, Mul(g, GeometricSum(g, k - 1)))

\* C4 amended: such simulators have equal net worth in the initial state and, after
\* every equal number k of advances, equal equity_real_estate,
\* remaining_mortgage_equity, monthly_expenses and latest_taxable_house_value; their
\* equity_stocks, and so their net worth, differ by the income difference times
\* 1 + g + ... + g^(k-1), g = (1 + roi_stocks) ** (1/12).
C4_IncomeEntersStocks ==
    \A slot \in MainSlots :
        (Built(slot) /\ Built(AltOf(slot)) /\ sims[slot].calls = sims[AltOf(slot)].calls)
            => LET a == sims[slot]
                   b == sims[AltOf(slot)]
                   g == MonthlyFactor(params[1].roi_stocks)
                   gap == Mul(Sub(params[2].monthly_income, params[1].monthly_income),
                              GeometricSum(g, a.calls))
               IN  /\ a.calls = 0 => net_worth(a) = net_worth(b)
                   /\ a.equity_real_estate = b.equity_real_estate
                   /\ a.remaining_mortgage_equity = b.remaining_mortgage_equity
                   /\ a.monthly_expenses = b.monthly_expenses
                   /\ a.latest_taxable_house_value = b.latest_taxable_house_value
                   /\ Sub(b.equity_stocks, a.equity_stocks) = gap
                   /\ Sub(net_worth(b), net_worth(a)) = gap

C4_Witness ==
    /\ Built("buy") /\ Built("buy_alt")
    /\ sims["buy"].calls = 13 /\ sims["buy_alt"].calls = 13
    /\ params[1].roi_stocks # Zero
    /\ params[2].monthly_income = Add(params[1].monthly_income, One)
    /\ [params[2] EXCEPT !.monthly_income = params[1].monthly_income] = params[1]
    /\ Sub(net_worth(sims["buy_alt"]), net_worth(sims["buy"])) = R(8191)

\* The state a simulator built for decision d from p is in after k advances made
\* on it alone.
RECURSIVE Trajectory(_, _, _)
Trajectory(s, p, k) ==
    IF k = 0
    THEN <<s>>
    ELSE <<s>> \o Trajectory(increment_by_month(s, p, None, None), p, k - 1)

Alone(d, p, k) == Trajectory(FinancialStatusInit(d, 1, p), p, k)[k + 1]

\* C6: with buy and rent advanced by two unsynchronised threads, a step of one
\* thread changes neither the other simulator nor the shared Parameter Set, and
\* between two calls a simulator is in the state k advances made on it alone
\* would have left it in.
C6_ThreadsIndependent ==
    [][/\ params' = params
       /\ \A slot \in MainSlots :
             /\ sims'[slot] # sims[slot] => threads'[slot] # threads[slot]
             /\ threads'[slot] = "idle" =>
                    sims'[slot] = Alone(DecisionOf(slot), params'[1], sims'[slot].calls)]_vars

C6_Witness ==
    /\ threads["buy"] = "idle" /\ sims["buy"].calls = 13
    /\ threads["rent"] = "cash_flow" /\ sims["rent"].calls = 6
    /\ params[1].roi_stocks # Zero /\ params[1].roi_real_estate # Zero

\* The free scenario: no return, no interest, a house worth nothing and the rent
\* equal to the straight-line mortgage payment.
FreeScenario(p) ==
    /\ p.roi_stocks = Zero
    /\ p.roi_real_estate = Zero
    /\ p.mortgage_interest_rate = Zero
    /\ p.base_house_equity = Zero
    /\ p.base_rent_per_year =
           Div(Mul(p.base_house_equity, Sub(One, p.downpayment_ratio)), R(p.num_years))

\* C10: in the free scenario Buy and Rent advanced in lockstep have equal net worth
\* initially and after every pass up to num_years * 12.
C10_FreeScenarioEqual ==
    (FreeScenario(params[1]) /\ sims["buy"].calls <= Horizon(params[1]))
        => net_worth(sims["buy"]) = net_worth(sims["rent"])

C10_Witness ==
    /\ FreeScenario(params[1])
    /\ params[1].monthly_income = One
    /\ params[1].num_years = 2
    /\ sims["buy"].calls = 24 /\ sims["rent"].calls = 24
    /\ net_worth(sims["buy"]) = R(24)

\* The principal borrowed: base_house_equity * (1 - downpayment_ratio).
Principal(p) == Mul(p.base_house_equity, Sub(One, p.downpayment_ratio))

MortgageQueries == {"monthly_mortgage", "get_monthly_mortgage_repayment"}

\* C11: with mortgage_interest_rate = 0 the monthly mortgage payment, as
\* get_monthly_mortgage_repayment and monthly_mortgage() return it, is P / n with
\* P = base_house_equity * (1 - downpayment_ratio) and n = num_years * 12, so that
\* payment * num_years * 12 = P; it is not negative, and positive when P is.
C11_ZeroInterestPayment ==
    (lastCall.op \in MortgageQueries /\ params[1].mortgage_interest_rate = Zero) =>
        LET P == Principal(params[1])
            n == Horizon(params[1])
        IN  /\ lastCall.result = Div(P, R(n))
            /\ Mul(Mul(lastCall.result, R(params[1].num_years)), R(MONTHS)) = P
            /\ ~Less(lastCall.result, Zero)
            /\ Less(Zero, P) => Less(Zero, lastCall.result)

C11_Witness ==
    /\ lastCall.op = "get_monthly_mortgage_repayment"
    /\ params[1].mortgage_interest_rate = Zero
    /\ params[1].num_years = 2
    /\ Principal(params[1]) = R(6)
    /\ lastCall.result = Frac(1, 4)

\* The state a simulator built for decision d from p is in after the calls whose
\* argument lists are h, in order.
RECURSIVE Replayed(_, _, _)
Replayed(s, p, h) ==
    IF h = <<>>
    THEN <<s>>
    ELSE <<s>> \o Replayed(increment_by_month(s, p, h[1][1], h[1][2]), p, Tail(h))

Replay(d, p, h) == Replayed(FinancialStatusInit(d, 1, p), p, h)[Len(h) + 1]

AllDefaults(h) == \A i \in 1..Len(h) : h[i] = <<None, None>>

\* The product of the monthly real-estate factors of the calls h.
RECURSIVE RoiProduct(_, _)
RoiProduct(p, h) ==
    IF h = <<>>
    THEN One
    ELSE Mul(RoiProduct(p, Tail(h)),
             MonthlyFactor(IF h[1][2] = None THEN p.roi_real_estate ELSE h[1][2]))

RECURSIVE NetWorths(_, _, _)
NetWorths(s, p, n) ==
    IF n = 0
    THEN <<>>
    ELSE <<net_worth(s)>> \o NetWorths(increment_by_month(s, p, None, None), p, n - 1)

\* C13: simulate() called on a freshly built pair collects, for each strategy, one
\* sample per pass, sample i (from 0) being the net worth after exactly i advances;
\* after every pass both simulators have been advanced as many times as samples
\* were taken; and on return there are exactly num_years * 12 samples and both
\* simulators have been advanced exactly num_years * 12 times.
C13_SimulateSamples ==
    simulate # NotCalled =>
        LET p == params[1]
            i == Len(simulate.equity_after_buying)
        IN  /\ Len(simulate.equity_after_renting) = i
            /\ sims["buy"].calls = i /\ sims["rent"].calls = i
            /\ sims["buy"].time = sims["rent"].time
            /\ simulate.equity_after_buying =
                   NetWorths(FinancialStatusInit(BUY, 1, p), p, i)
            /\ simulate.equity_after_renting =
                   NetWorths(FinancialStatusInit(RENT, 1, p), p, i)
            /\ i <= Horizon(p)
            /\ simulate.pc = "returned" =>
                   /\ i = Horizon(p)
                   /\ Len(simulate.times) = Horizon(p)

C13_Witness ==
    /\ simulate # NotCalled /\ simulate.pc = "returned"
    /\ params[1].num_years = 1
    /\ params[1].roi_stocks # Zero /\ params[1].roi_real_estate # Zero
    /\ Len(simulate.equity_after_buying) = 12
    /\ simulate.equity_after_buying[1] = R(6)
    /\ simulate.equity_after_buying[2] # R(6)
    /\ sims["buy"].calls = 12 /\ sims["rent"].calls = 12
    /\ sims["buy"].reevals = 1

\* C14: a call of net_worth(), monthly_mortgage(), monthly_misc_costs() or
\* monthly_excess() changes no field of any simulator and nothing in the Parameter
\* Set, in every state and however often it is repeated, and net_worth() returns
\* equity_real_estate + equity_stocks - remaining_mortgage_equity.
C14_QueriesReadOnly ==
    [][\A slot \in MainSlots, q \in Queries :
          (lastCall'.op = q /\ Query(slot, q)) =>
              /\ sims' = sims
              /\ params' = params
              /\ q = "net_worth" =>
                     lastCall'.result =
                         Sub(Add(sims[slot].equity_real_estate, sims[slot].equity_stocks),
                             sims[slot].remaining_mortgage_equity)]_vars

C14_Witness ==
    /\ lastCall.op = "monthly_mortgage" /\ lastCall.slot = "buy"
    /\ sims["buy"].calls = 13 /\ sims["buy"].reevals = 1
    /\ params[1].mortgage_interest_rate # Zero
    /\ params[1].base_house_misc_costs # Zero
    /\ lastCall.result # sims["buy"].monthly_expenses

\* C15: an advance multiplies the equity_stocks it finds by the monthly factor and
\* then adds monthly_income less the monthly_expenses it finds, so the month's cash
\* flow earns nothing in that month and an advance that ends a year charges the
\* expenses of the year just ended; the expenses the re-evaluation sets are the
\* ones the following advance charges.
C15_GrowthThenCashFlowThenAnnual ==
    [][\A slot \in MainSlots :
          (Built(slot) /\ sims'[slot] # sims[slot]) =>
              LET s == sims[slot]
                  g == MonthlyFactor(params[1].roi_stocks)
              IN  sims'[slot].equity_stocks =
                      Add(Mul(s.equity_stocks, g),
                          Sub(s.monthly_income, s.monthly_expenses))]_vars

C15_Witness ==
    \E slot \in MainSlots :
        /\ Built(slot) /\ sims[slot].calls = 12 /\ sims[slot].reevals = 1
        /\ params[1].roi_stocks # Zero
        /\ LET before == Alone(DecisionOf(slot), params[1], 11)
           IN  /\ before.monthly_expenses # sims[slot].monthly_expenses
               /\ before.equity_stocks # Zero
               /\ sims[slot].equity_stocks =
                      Add(Mul(before.equity_stocks, R(2)),
                          Sub(before.monthly_income, before.monthly_expenses))

\* The state a re-evaluation has just left: the advance that closed a year.
JustReevaluated(s) == s.calls > 0 /\ s.calls % MONTHS = 0

\* C16: right after every annual re-evaluation latest_taxable_house_value is
\* base_house_equity * cumulative_real_estate_roi; a Rent simulator's
\* monthly_expenses is base_rent_per_year * cumulative_real_estate_roi / 12; a Buy
\* simulator's is the mortgage payment, the same function of the Parameter Set in
\* every year, plus base_house_misc_costs * the new house value / 12.
C16_AnnualReevaluation ==
    \A slot \in MainSlots :
        (Built(slot) /\ JustReevaluated(sims[slot])) =>
            LET s   == sims[slot]
                p   == params[1]
                ltv == Mul(p.base_house_equity, s.cumulative_real_estate_roi)
            IN  /\ s.latest_taxable_house_value = ltv
                /\ s.decision = RENT =>
                       s.monthly_expenses =
                           Div(Mul(p.base_rent_per_year, s.cumulative_real_estate_roi),
                               R(MONTHS))
                /\ s.decision = BUY =>
                       s.monthly_expenses =
                           Add(get_monthly_mortgage_repayment(p),
                               Div(Mul(p.base_house_misc_costs, ltv), R(MONTHS)))

C16_Witness ==
    /\ Built("buy") /\ JustReevaluated(sims["buy"])
    /\ sims["buy"].calls = 24 /\ sims["buy"].reevals = 2
    /\ params[1].mortgage_interest_rate # Zero
    /\ params[1].base_house_misc_costs = One
    /\ sims["buy"].cumulative_real_estate_roi = R(4)
    /\ sims["buy"].latest_taxable_house_value = R(48)
    /\ sims["buy"].monthly_expenses = Add(get_monthly_mortgage_repayment(params[1]), R(4))

\* The calls of h up to the last one that closed a year.
WholeYears(h) == SubSeq(h, 1, (Len(h) \div MONTHS) * MONTHS)

\* C17: a Rent simulator has equity_real_estate = 0 and
\* remaining_mortgage_equity = 0 in every state, whatever rates the advance calls
\* passed, so its net worth is its equity_stocks; and its monthly_expenses is the
\* rent alone, base_rent_per_year / 12 times the real-estate growth up to the last
\* re-evaluation, with no mortgage payment and no misc cost in it.
C17_RentHoldsNoProperty ==
    Built("rent") =>
        LET s == sims["rent"]
            p == params[1]
        IN  /\ s.equity_real_estate = Zero
            /\ s.remaining_mortgage_equity = Zero
            /\ net_worth(s) = s.equity_stocks
            /\ s.monthly_expenses =
                   Mul(Div(p.base_rent_per_year, R(MONTHS)),
                       RoiProduct(p, WholeYears(history["rent"])))

C17_Witness ==
    /\ Built("rent")
    /\ sims["rent"].calls = 24 /\ sims["rent"].reevals = 2
    /\ history["rent"][12] = <<R(4095), R(4095)>>
    /\ history["rent"][24] = <<R(0), R(4095)>>
    /\ params[1].mortgage_interest_rate # Zero
    /\ params[1].base_house_misc_costs # Zero
    /\ params[1].roi_real_estate = Zero
    /\ sims["rent"].monthly_expenses = R(2)
    /\ sims["rent"].equity_stocks # Zero

\* C18: a Buy simulator's remaining_mortgage_equity is never negative, in any
\* state, the states past num_years * 12 advances included.
C18_MortgageNeverNegative ==
    Built("buy") => ~Less(sims["buy"].remaining_mortgage_equity, Zero)

\* C18, what the code does: the principal falls by P / (num_years * 12) on every
\* advance without end, so it is not negative up to num_years * 12 advances and is
\* -(k - num_years * 12) * P / (num_years * 12) after k advances beyond them.
C18_MortgageOverpaidPastHorizon ==
    Built("buy") =>
        LET P == Principal(params[1])
            n == Horizon(params[1])
            k == sims["buy"].calls
        IN  /\ k <= n => ~Less(sims["buy"].remaining_mortgage_equity, Zero)
            /\ k > n => sims["buy"].remaining_mortgage_equity =
                            Neg(Mul(R(k - n), Div(P, R(n))))

C18_Witness ==
    /\ Built("buy")
    /\ params[1].num_years = 1 /\ sims["buy"].calls = 13
    /\ Principal(params[1]) = R(12)
    /\ sims["buy"].remaining_mortgage_equity = R(-1)
    /\ net_worth(sims["buy"]) = R(0)

\* C19: a Buy simulator has
\* equity_real_estate = base_house_equity * cumulative_real_estate_roi in every
\* state, whatever roi_real_estate the advance calls passed; so right after
\* construction and right after every annual re-evaluation
\* latest_taxable_house_value = equity_real_estate.
C19_HouseValueTracksRoi ==
    Built("buy") =>
        LET s == sims["buy"]
        IN  /\ s.equity_real_estate =
                   Mul(params[1].base_house_equity, s.cumulative_real_estate_roi)
            /\ (s.calls = 0 \/ JustReevaluated(s)) =>
                   s.latest_taxable_house_value = s.equity_real_estate

C19_Witness ==
    /\ Built("buy")
    /\ sims["buy"].calls = 24 /\ sims["buy"].reevals = 2
    /\ history["buy"][12] = <<None, R(4095)>>
    /\ history["buy"][24] = <<None, R(4095)>>
    /\ params[1].roi_real_estate = Zero
    /\ sims["buy"].cumulative_real_estate_roi = R(4)
    /\ sims["buy"].equity_real_estate = R(48)
    /\ sims["buy"].latest_taxable_house_value = R(48)

\* C20: a Buy simulator's monthly_expenses equals monthly_mortgage() +
\* monthly_misc_costs() in every state, after construction and after any number
\* of advances: the payment charged at construction and the payment charged at a
\* re-evaluation are the same function of the Parameter Set.
C20_BuyExpensesAddUp ==
    Built("buy") =>
        sims["buy"].monthly_expenses =
            Add(monthly_mortgage(sims["buy"], params[1]),
                monthly_misc_costs(sims["buy"], params[1]))

C20_Witness ==
    /\ Built("buy")
    /\ sims["buy"].calls = 13 /\ sims["buy"].reevals = 1
    /\ params[1].mortgage_interest_rate # Zero
    /\ params[1].base_house_misc_costs # Zero
    /\ params[1].roi_real_estate # Zero
    /\ sims["buy"].latest_taxable_house_value = R(12 * 4096)
    /\ sims["buy"].monthly_expenses = Add(Frac(6 * 4096, 4095), R(4096))

=============================================================================
